---- MODULE Spec2Model ----
(***************************************************************************)
(* The dual-channel audio playback controller of src/src/pages/Game.tsx    *)
(* (component Game with its hooks useAudioFallback and                     *)
(* useNextRoundPreloader) together with the two backend routes it talks to *)
(* (src/unnamed/part_000: /api/start-game and /api/audio-files).           *)
(*                                                                         *)
(* One action is one task of the browser's event loop: a user intent, a    *)
(* media event, a timer, or the resumption of an async function after an   *)
(* await, each with the React re-render and the effects it triggers.       *)
(***************************************************************************)
EXTENDS Integers, Sequences, FiniteSets, TLC

\* ------------------------------------------------------------- constants
TOTAL_ROUNDS == 10
MAX_AUDIO_RETRIES == 3

\* --------------------------------------------------------------- bounds
\* user intents, buffering reports and failure reports in one session (a
\* failure reported on a channel whose retry budget is spent is not counted)
MaxEvents == 3
\* length of the shorter round sequence the Round Source may supply
ShortRounds == 2

\* ---------------------------------------------------------------- values
Sides == {"left", "right"}

Other(s) == IF s = "left" THEN "right" ELSE "left"

\* An asset locator "/audio/<cat>/<celeb>/<file>.wav"; NoAsset is ''.
Asset(cat, celeb, file) == [cat |-> cat, celeb |-> celeb, file |-> file]

NoAsset == Asset("none", 0, "")

NoRound == [celebrity |-> 0, realAudio |-> NoAsset, fakeAudio |-> NoAsset,
            realPosition |-> "none"]

NoDispatch == [ev |-> "none", side |-> "none"]

NoTimer == [pc |-> "none", cr |-> 0, results |-> <<>>]

Ev(op, side, ok) ==
    IF op = "advance" \/ (~ok /\ op \in {"select", "togglePlay", "replay", "error"})
    THEN [op |-> op, side |-> side]
    ELSE [op |-> "none", side |-> "none"]

\* --------------------------------------------------------- Round Source
\* GET /api/start-game: one round per celebrity folder, the authentic clip
\* at a random position.  pat chooses the positions, n the number of folders.
RealPositionOf(pat, i) == IF (i % 2 = 1) = (pat = "AB") THEN "A" ELSE "B"

\* the .wav files found in the celebrity folders: file names are whatever
\* is on disk, here one with a space and one without
Files == <<"clip01.wav", "clip 02.wav">>

PickedFile(i) == Files[((i - 1) % Len(Files)) + 1]

BackendRound(pat, i) ==
    LET realPosition == RealPositionOf(pat, i)
        real == Asset("Real", i, PickedFile(i))
        cloned == Asset("Cloned", i, PickedFile(i + 1))
    IN  [roundNumber |-> i,
         celebrity |-> i,
         audioA |-> IF realPosition = "A" THEN real ELSE cloned,
         audioB |-> IF realPosition = "B" THEN real ELSE cloned,
         realPosition |-> realPosition]

StartGame(n, pat) == [i \in 1..n |-> BackendRound(pat, i)]

\* MapRound with the authentic position taken the other way round
C30_MapRoundMirrored(r) ==
    [celebrity |-> r.celebrity,
     realAudio |-> IF r.realPosition = "A" THEN r.audioA ELSE r.audioB,
     fakeAudio |-> IF r.realPosition = "A" THEN r.audioB ELSE r.audioA,
     realPosition |-> IF r.realPosition = "A" THEN "right" ELSE "left"]

\* loadGame: BackendRound -> RoundSetup
MapRound(r) ==
    [celebrity |-> r.celebrity,
     realAudio |-> IF r.realPosition = "A" THEN r.audioA ELSE r.audioB,
     fakeAudio |-> IF r.realPosition = "A" THEN r.audioB ELSE r.audioA,
     realPosition |-> IF r.realPosition = "A" THEN "left" ELSE "right"]

MappedRounds(data) == [i \in 1..Len(data) |-> MapRound(data[i])]

\* ------------------------------------------------------- Asset Resolver
\* GET /api/audio-files/:celebrity?category=..&exclude=..
\* fs.readdirSync(folder).filter(.wav): a folder holds one file or more;
\* the Cloned folder of every second celebrity holds a single one
WavFiles(category, celebrity) ==
    IF category = "Cloned" /\ celebrity % 2 = 0 THEN {Files[1]}
    ELSE {Files[i] : i \in 1..Len(Files)}

\* the URL parser percent-encodes a path segment
PercentEncoded(file) == IF file = "clip 02.wav" THEN "clip%2002.wav" ELSE file

\* new URL(audioRef.current.src).pathname: the element's src is the
\* resolved URL, whose path is percent-encoded; '' does not parse and is
\* passed as it is
Pathname(src) == [src EXCEPT !.file = PercentEncoded(@)]

\* path.basename(exclude); the query parser has undone URLSearchParams'
\* own encoding, not the path's
Basename(a) == a.file

AudioFiles(celebrity, category, exclude) ==
    LET allFiles == WavFiles(category, celebrity)
        filtered == {f \in allFiles : f # Basename(exclude)}
        candidates == IF exclude # NoAsset /\ filtered # {} THEN filtered
                      ELSE allFiles
    IN  {Asset(category, celebrity, f) : f \in candidates}

\* currentSrc.includes('/Cloned/') ? 'Cloned' : 'Real'
CategoryOf(src) == IF src.cat = "Cloned" THEN "Cloned" ELSE "Real"

\* ---------------------------------------------------------------- state
VARIABLES
    page,            \* "game" | "results" (after navigate('/results'))
    gameFetch,       \* the /api/start-game request: "pending" | "ok" | "failed"
    resultsState,    \* the location state handed to navigate('/results')
    loading,         \* useState loading
    rounds,          \* useState rounds: sequence of RoundSetup
    currentRound,    \* useState currentRound (0-based)
    selected,        \* useState selected: "none" | "left" | "right"
    showResult,      \* useState showResult
    isCorrect,       \* useState isCorrect
    roundResults,    \* useState roundResults: the outcome log
    playing,         \* useState playingLeft / playingRight
    replayCount,     \* useState replayLeft / replayRight
    transitioning,   \* useState transitioning
    buffering,       \* useState audioLeftBuffering / audioRightBuffering
    el,              \* the two <audio> elements: paused, src, atStart
    playRequestId,   \* useRef playRequestId
    retries,         \* useRef retriesLeft / retriesRight
    fallbackActive,  \* useRef fallbackActiveLeft / fallbackActiveRight
    preloadRefs,     \* useRef preloadRefs: srcs of the detached Audio objects
    preloadNet,      \* what the network has made of each of them so far
    timer,           \* the setTimeout chain started by handleSelect
    plays,           \* play() promises of togglePlay/replay not yet settled
    fbs,             \* handleAudioError invocations suspended at an await
    dispatch,        \* media event whose remaining listeners have yet to run
    submissions,     \* bodies POSTed to /api/submit-game
    issued,          \* resolver requests issued per channel in this round
    nEvents,         \* user intents and unsolicited media events so far
    lastEv           \* the call the last step rejected, or the advance it made

lifeVars == <<page, gameFetch, resultsState, loading, rounds, currentRound, selected, showResult,
              isCorrect, roundResults, replayCount, transitioning, timer,
              submissions, preloadRefs, preloadNet>>

chanState == <<playing, buffering, el, playRequestId, retries, fallbackActive,
               plays, fbs, dispatch, issued>>

chanVars == <<chanState, nEvents>>

vars == <<lifeVars, chanVars, lastEv>>

\* ------------------------------------------------------------- derived
\* variant of IsLastRound: every round is taken for the last
C10_AnyRoundIsLast(cr) == TRUE

\* if (currentRound + 1 >= TOTAL_ROUNDS)
IsLastRound(cr) == cr + 1 >= TOTAL_ROUNDS

\* const round = rounds[currentRound] ?? null
RoundAt(rs, cr) == IF cr + 1 <= Len(rs) THEN rs[cr + 1] ELSE NoRound

Round == RoundAt(rounds, currentRound)

LeftAudioOf(r) == IF r = NoRound THEN NoAsset
                  ELSE IF r.realPosition = "left" THEN r.realAudio
                  ELSE r.fakeAudio

RightAudioOf(r) == IF r = NoRound THEN NoAsset
                   ELSE IF r.realPosition = "right" THEN r.realAudio
                   ELSE r.fakeAudio

AudioOf(r, s) == IF s = "left" THEN LeftAudioOf(r) ELSE RightAudioOf(r)

\* the early return of the render: the game, with its two <audio>
\* elements, is on screen only when a round exists
MountedIn(pg, ld, rs, cr) == pg = "game" /\ ~ld /\ RoundAt(rs, cr) # NoRound

Mounted == MountedIn(page, loading, rounds, currentRound)

\* variant of Disabled: only the transition disables
C19_DisabledInTransition == transitioning

\* disabled: !!selected || transitioning
Disabled == selected # "none" \/ transitioning

Idle == page = "game" /\ dispatch = NoDispatch

\* the bounds on the environment
\* The user and the playback surface are quiet, and the left card is
\* selected, until the last rounds of the session: the last round of a full
\* session (the one that submits) and the last two of a short one (a round
\* transition with events on both sides of it).
ActiveRounds(n) == IF n < TOTAL_ROUNDS THEN 2 ELSE 1

Active == currentRound + ActiveRounds(Len(rounds)) >= Len(rounds)

MayAct == Active /\ nEvents < MaxEvents

\* the right channel is played, and reports, only in the last round of the
\* session
MayUse(side) == side = "left" \/ currentRound + 1 >= Len(rounds)

\* the right card is selected only in the last round of the session
MaySelect(side) == side = "left" \/ currentRound + 1 >= Len(rounds)

\* a promise that is settled has its callback queued: it runs before a timer
\* that still has its delay to wait
CallbackQueued ==
    \/ \E p \in plays : p.phase = "resolving"
    \/ \E c \in fbs : c.pc \in {"playOk", "playRej"}

\* -------------------------------------------------- the media elements
FreshEl(src) == [paused |-> TRUE, src |-> src, atStart |-> TRUE]

\* variant of PauseEl: the element goes on
C22_PauseNothing(e) == e

\* el.pause()
PauseEl(e) == [e EXCEPT !.paused = TRUE]

\* pause() and load() reject the play() promises still pending on the
\* element; a promise already taken for resolution is resolved by its task.
PlaysAfterPause(P, S) == {p \in P : ~(p.side \in S /\ p.phase = "pending")}

FbsAfterPause(F, S) ==
    {IF c.side \in S /\ c.pc = "play" THEN [c EXCEPT !.pc = "playRej"] ELSE c
       : c \in F}

\* a later play/pause intent on the channel supersedes the requests before it
Superseded(P, s) == {IF p.side = s THEN [p EXCEPT !.stale = TRUE] ELSE p : p \in P}

\* variant of TearDown: the earlier buffers are kept
C20_KeepBuffers(refs) == refs

\* ------------------------------------------------------------ preloader
\* preloadRefs.current.forEach(el => { el.src = ''; el.load() });
\* preloadRefs.current = []
TearDown(refs) == <<>>

\* the buffers the effect creates for the round after cr
PreloadFor(rs, cr) ==
    IF cr + 1 >= Len(rs) THEN <<>>
    ELSE <<LeftAudioOf(rs[cr + 2]), RightAudioOf(rs[cr + 2])>>

\* el.preload = 'auto'; el.src = src: every new buffer starts to load
NetOf(refs) == [i \in 1..Len(refs) |-> "loading"]

\* what became of the preload of the round now being entered
PreloadOutcome(net) ==
    IF net = <<>> THEN "none"
    ELSE IF \E i \in 1..Len(net) : net[i] = "failed" THEN "failed"
    ELSE IF \E i \in 1..Len(net) : net[i] = "loading" THEN "loading"
    ELSE "loaded"

\* the state of a Game component as constructed
Constructed ==
    /\ loading = TRUE
    /\ rounds = <<>>
    /\ currentRound = 0
    /\ selected = "none"
    /\ showResult = FALSE
    /\ isCorrect = FALSE
    /\ roundResults = <<>>
    /\ playing = [s \in Sides |-> FALSE]
    /\ replayCount = [s \in Sides |-> 0]
    /\ transitioning = FALSE
    /\ buffering = [s \in Sides |-> FALSE]
    /\ el = [s \in Sides |-> FreshEl(NoAsset)]
    /\ playRequestId = 0
    /\ retries = [s \in Sides |-> 0]
    /\ fallbackActive = [s \in Sides |-> FALSE]
    /\ preloadRefs = <<>>
    /\ preloadNet = <<>>
    /\ timer = NoTimer
    /\ plays = {}
    /\ fbs = {}
    /\ dispatch = NoDispatch
    /\ issued = [s \in Sides |-> 0]
    /\ nEvents = 0

\* ----------------------------------------------------------------- Init
Init ==
    /\ page = "game"
    /\ gameFetch = "pending"
    /\ resultsState = [rounds |-> <<>>]
    /\ submissions = <<>>
    /\ Constructed
    /\ lastEv = Ev("init", "none", TRUE)

\* ------------------------------------------------------------- variants
\* Variants of the definitions below, each leaving out what one property
\* rests on.
\* FallbackAccepted without the retry budget
C2_FallbackAcceptedNoBudget(s) ==
    /\ ~Disabled
    /\ ~fallbackActive[s]

\* RetriesAfterRender without the reset
C5_RetriesKept(r, changed) == r

\* SelectAccepted without the decided / transitioning guard
C6_SelectAlwaysAccepted == Round # NoRound

\* ElAfterRender without the reload and rewind
C7_ElKept(e, oldSrc, newSrc, mounted) == e

\* StopAll without the pauses
C9_StopNothing(E) == E

\* RoundResult numbering from zero
C13_RoundResultFromZero(side) ==
    [roundNum |-> currentRound,
     celebrity |-> Round.celebrity,
     realAudio |-> Round.realAudio,
     fakeAudio |-> Round.fakeAudio,
     realPosition |-> Round.realPosition,
     userChoice |-> side,
     correct |-> (side = Round.realPosition),
     replayCountLeft |-> replayCount["left"],
     replayCountRight |-> replayCount["right"]]

\* RoundResult with every choice correct
C14_RoundResultAlwaysCorrect(side) ==
    [roundNum |-> currentRound + 1,
     celebrity |-> Round.celebrity,
     realAudio |-> Round.realAudio,
     fakeAudio |-> Round.fakeAudio,
     realPosition |-> Round.realPosition,
     userChoice |-> side,
     correct |-> TRUE,
     replayCountLeft |-> replayCount["left"],
     replayCountRight |-> replayCount["right"]]

\* RoundResult with the two replay counters exchanged
C15_RoundResultCountsSwapped(side) ==
    [roundNum |-> currentRound + 1,
     celebrity |-> Round.celebrity,
     realAudio |-> Round.realAudio,
     fakeAudio |-> Round.fakeAudio,
     realPosition |-> Round.realPosition,
     userChoice |-> side,
     correct |-> (side = Round.realPosition),
     replayCountLeft |-> replayCount["right"],
     replayCountRight |-> replayCount["left"]]

\* LoadGameFail starting the session on stored rounds
C12_LoadGameFailStarts ==
    /\ Idle /\ gameFetch = "pending"
    /\ gameFetch' = "failed"
    /\ rounds' = MappedRounds(StartGame(ShortRounds, "AB"))
    /\ loading' = FALSE
    /\ el' = [s \in Sides |-> FreshEl(AudioOf(RoundAt(rounds', currentRound), s))]
    /\ preloadRefs' = TearDown(preloadRefs) \o PreloadFor(rounds', currentRound)
    /\ preloadNet' = NetOf(preloadRefs')
    /\ lastEv' = Ev("loadGame", "none", TRUE)
    /\ UNCHANGED <<page, resultsState, currentRound, selected, showResult, isCorrect,
                   roundResults, replayCount, transitioning, timer,
                   submissions>>
    /\ UNCHANGED <<playing, buffering, playRequestId, retries, fallbackActive,
                   plays, fbs, dispatch, issued, nEvents>>

\* NewFallback capturing "playing" whatever the flag
C16_NewFallbackResumes(s) ==
    [id |-> 1 + Cardinality(fbs),
     side |-> s,
     wasPlaying |-> TRUE,
     celebrity |-> Round.celebrity,
     category |-> IF el[s].src.cat = "Cloned" THEN "Cloned" ELSE "Real",
     currentSrc |-> el[s].src,
     exclude |-> Pathname(el[s].src),
     pc |-> "fetch",
     round |-> currentRound]

\* ResolverFails without the catch's setPlaying(false)
C18_ResolverFailsKeepsFlag(c, kind) ==
    /\ Idle
    /\ c.pc = "fetch"
    /\ fallbackActive' = [fallbackActive EXCEPT ![c.side] = FALSE]
    /\ fbs' = fbs \ {c}
    /\ lastEv' = Ev(kind, c.side, FALSE)
    /\ UNCHANGED lifeVars
    /\ UNCHANGED <<playing, buffering, el, playRequestId, retries, plays, dispatch,
                   issued, nEvents>>

\* ResolverFails with the catch stopping both channels
C23_ResolverFailsStopsBoth(c, kind) ==
    /\ Idle
    /\ c.pc = "fetch"
    /\ playing' = [s \in Sides |-> FALSE]
    /\ fallbackActive' = [fallbackActive EXCEPT ![c.side] = FALSE]
    /\ fbs' = fbs \ {c}
    /\ lastEv' = Ev(kind, c.side, FALSE)
    /\ UNCHANGED lifeVars
    /\ UNCHANGED <<buffering, el, playRequestId, retries, plays, dispatch,
                   issued, nEvents>>

\* ResolverFails without the finally block's reset of the single-flight flag
C29_ResolverFailsKeepsFlag(c, kind) ==
    /\ Idle
    /\ c.pc = "fetch"
    /\ playing' = [playing EXCEPT ![c.side] = FALSE]
    /\ fbs' = fbs \ {c}
    /\ lastEv' = Ev(kind, c.side, FALSE)
    /\ UNCHANGED lifeVars
    /\ UNCHANGED <<buffering, el, playRequestId, retries, fallbackActive, plays,
                   dispatch, issued, nEvents>>

\* IntentAccepted with the buttons dead while a channel buffers
C25_IntentBlockedByBuffering ==
    selected = "none" /\ \A s \in Sides : ~buffering[s]

\* PreloadSettles with a failed preload taking the game off the screen
C21_PreloadFailureBlocks(i, outcome) ==
    /\ Idle /\ MayAct
    /\ i \in 1..Len(preloadNet)
    /\ preloadNet[i] = "loading"
    /\ nEvents' = nEvents + 1
    /\ preloadNet' = [preloadNet EXCEPT ![i] = outcome]
    /\ loading' = (outcome = "failed")
    /\ lastEv' = Ev("preload", "none", TRUE)
    /\ UNCHANGED <<page, gameFetch, resultsState, rounds, currentRound, selected,
                   showResult, isCorrect, roundResults, replayCount,
                   transitioning, timer, submissions, preloadRefs>>
    /\ UNCHANGED chanState

\* ------------------------------------------------------------ loadGame
\* the sessions the backend supplies here: a full one, and a short one as
\* a backend with fewer celebrity folders returns; <<rounds, positions>>
Sessions == {<<ShortRounds, "AB">>, <<TOTAL_ROUNDS, "BA">>}

\* the response arrives: setRounds(mappedRounds); setLoading(false).  The
\* first render with a round mounts the <audio> elements and runs the effects.
LoadGameOk(n, pat) ==
    /\ Idle /\ gameFetch = "pending"
    /\ gameFetch' = "ok"
    /\ rounds' = MappedRounds(StartGame(n, pat))
    /\ loading' = FALSE
    /\ el' = [s \in Sides |-> FreshEl(AudioOf(RoundAt(rounds', currentRound), s))]
    /\ preloadRefs' = TearDown(preloadRefs) \o PreloadFor(rounds', currentRound)
    /\ preloadNet' = NetOf(preloadRefs')
    /\ lastEv' = Ev("loadGame", "none", TRUE)
    /\ UNCHANGED <<page, resultsState, currentRound, selected, showResult, isCorrect,
                   roundResults, replayCount, transitioning, timer,
                   submissions>>
    /\ UNCHANGED <<playing, buffering, playRequestId, retries, fallbackActive,
                   plays, fbs, dispatch, issued, nEvents>>

\* fetch or res.json() throws, or data.rounds is missing: the catch logs
LoadGameFail ==
    /\ Idle /\ gameFetch = "pending"
    /\ gameFetch' = "failed"
    /\ lastEv' = Ev("loadGame", "none", FALSE)
    /\ UNCHANGED <<page, resultsState, loading, rounds, currentRound, selected, showResult,
                   isCorrect, roundResults, replayCount, transitioning, timer,
                   submissions, preloadRefs, preloadNet>>
    /\ UNCHANGED chanVars

\* -------------------------------------------------------- handleSelect
\* if (selected || transitioning || !round) return;
SelectAccepted == ~(selected # "none" \/ transitioning \/ Round = NoRound)

\* stopAll: both elements paused
StopAll(E) == [s \in Sides |-> PauseEl(E[s])]

RoundResult(side) ==
    [roundNum |-> currentRound + 1,
     celebrity |-> Round.celebrity,
     realAudio |-> Round.realAudio,
     fakeAudio |-> Round.fakeAudio,
     realPosition |-> Round.realPosition,
     userChoice |-> side,
     correct |-> (side = Round.realPosition),
     replayCountLeft |-> replayCount["left"],
     replayCountRight |-> replayCount["right"]]

HandleSelect(side) ==
    /\ Idle
    /\ IF SelectAccepted
       THEN /\ MaySelect(side)
            /\ selected' = side
            /\ el' = StopAll(el)
            /\ playing' = [s \in Sides |-> FALSE]
            /\ plays' = PlaysAfterPause(plays, Sides)
            /\ fbs' = FbsAfterPause(fbs, Sides)
            /\ isCorrect' = (side = Round.realPosition)
            /\ showResult' = TRUE
            /\ roundResults' = Append(roundResults, RoundResult(side))
            /\ timer' = [pc |-> "t1", cr |-> currentRound,
                         results |-> roundResults']
            /\ lastEv' = Ev("select", side, TRUE)
            /\ UNCHANGED <<page, gameFetch, resultsState, loading, rounds, currentRound,
                           replayCount, transitioning, submissions, preloadRefs, preloadNet>>
            /\ UNCHANGED <<buffering, playRequestId, retries, fallbackActive,
                           dispatch, issued, nEvents>>
       ELSE /\ MayAct
            /\ nEvents' = nEvents + 1
            /\ lastEv' = Ev("select", side, FALSE)
            /\ UNCHANGED <<lifeVars, chanState>>

\* the 1200 ms timer, last round: POST /api/submit-game
TimerSubmit ==
    /\ Idle /\ ~CallbackQueued /\ timer.pc = "t1" /\ IsLastRound(timer.cr)
    /\ submissions' = Append(submissions, timer.results)
    /\ timer' = [timer EXCEPT !.pc = "submit"]
    /\ lastEv' = Ev("submit", "none", TRUE)
    /\ UNCHANGED <<page, gameFetch, resultsState, loading, rounds, currentRound, selected,
                   showResult, isCorrect, roundResults, replayCount,
                   transitioning, preloadRefs, preloadNet>>
    /\ UNCHANGED chanVars

\* the 1200 ms timer, any other round: setTransitioning(true)
TimerTransition ==
    /\ Idle /\ ~CallbackQueued /\ timer.pc = "t1" /\ ~IsLastRound(timer.cr)
    /\ transitioning' = TRUE
    /\ timer' = [timer EXCEPT !.pc = "t2"]
    /\ lastEv' = Ev("transition", "none", TRUE)
    /\ UNCHANGED <<page, gameFetch, resultsState, loading, rounds, currentRound, selected,
                   showResult, isCorrect, roundResults, replayCount,
                   submissions, preloadRefs, preloadNet>>
    /\ UNCHANGED chanVars

\* response.json() resolved: navigate('/results') unmounts the game
SubmitOk ==
    /\ Idle /\ timer.pc = "submit"
    /\ page' = "results"
    /\ resultsState' = [rounds |-> timer.results]
    \* navigating away unmounts the component: its state, its media elements
    \* and its pending continuations are gone
    /\ loading' = TRUE
    /\ rounds' = <<>>
    /\ currentRound' = 0
    /\ selected' = "none"
    /\ showResult' = FALSE
    /\ isCorrect' = FALSE
    /\ roundResults' = <<>>
    /\ playing' = [s \in Sides |-> FALSE]
    /\ replayCount' = [s \in Sides |-> 0]
    /\ transitioning' = FALSE
    /\ buffering' = [s \in Sides |-> FALSE]
    /\ el' = [s \in Sides |-> FreshEl(NoAsset)]
    /\ playRequestId' = 0
    /\ retries' = [s \in Sides |-> 0]
    /\ fallbackActive' = [s \in Sides |-> FALSE]
    /\ preloadRefs' = TearDown(preloadRefs)
    /\ preloadNet' = NetOf(preloadRefs')
    /\ timer' = NoTimer
    /\ plays' = {}
    /\ fbs' = {}
    /\ dispatch' = NoDispatch
    /\ issued' = [s \in Sides |-> 0]
    /\ nEvents' = 0
    /\ lastEv' = Ev("submitted", "none", TRUE)
    /\ UNCHANGED <<gameFetch, submissions>>

\* fetch or response.json() throws: the catch logs
SubmitFail ==
    /\ Idle /\ timer.pc = "submit"
    /\ timer' = NoTimer
    /\ lastEv' = Ev("submitted", "none", FALSE)
    /\ UNCHANGED <<page, gameFetch, resultsState, loading, rounds, currentRound, selected,
                   showResult, isCorrect, roundResults, replayCount,
                   transitioning, submissions, preloadRefs, preloadNet>>
    /\ UNCHANGED chanVars

\* ------------------------------------------- the render of a new round
\* React writes a changed src prop to the element, which reloads it; the
\* round-change effect pauses and rewinds.  Without a round the game is not
\* rendered and the refs are null.
ElAfterRender(e, oldSrc, newSrc, mounted) ==
    IF ~mounted THEN FreshEl(NoAsset)
    ELSE [paused |-> TRUE,
          src |-> IF newSrc # oldSrc THEN newSrc ELSE e.src,
          atStart |-> TRUE]

\* useEffect(..., [leftAudio, rightAudio])
SourcesChanged(old, new) ==
    \/ LeftAudioOf(new) # LeftAudioOf(old)
    \/ RightAudioOf(new) # RightAudioOf(old)

RetriesAfterRender(r, changed) ==
    IF changed THEN [s \in Sides |-> 0] ELSE r

ActiveAfterRender(a, changed) ==
    IF changed THEN [s \in Sides |-> FALSE] ELSE a

\* the 1500 ms timer: the state updates of the transition, their render and
\* its effects
Advance ==
    /\ Idle /\ ~CallbackQueued /\ timer.pc = "t2"
    /\ currentRound' = currentRound + 1
    /\ selected' = "none"
    /\ showResult' = FALSE
    /\ replayCount' = [s \in Sides |-> 0]
    /\ transitioning' = FALSE
    /\ timer' = NoTimer
    /\ LET new == RoundAt(rounds, currentRound + 1)
           changed == SourcesChanged(Round, new)
       IN  /\ el' = [s \in Sides |->
                       ElAfterRender(el[s], AudioOf(Round, s), AudioOf(new, s),
                                     new # NoRound)]
           /\ retries' = RetriesAfterRender(retries, changed)
           /\ fallbackActive' = ActiveAfterRender(fallbackActive, changed)
    /\ playing' = [s \in Sides |-> FALSE]
    /\ buffering' = [s \in Sides |-> FALSE]
    /\ plays' = PlaysAfterPause(plays, Sides)
    /\ fbs' = FbsAfterPause(fbs, Sides)
    /\ preloadRefs' = TearDown(preloadRefs) \o PreloadFor(rounds, currentRound + 1)
    /\ preloadNet' = NetOf(preloadRefs')
    /\ issued' = [s \in Sides |-> 0]
    /\ lastEv' = Ev("advance", PreloadOutcome(preloadNet), TRUE)
    /\ UNCHANGED <<page, gameFetch, resultsState, loading, rounds, isCorrect, roundResults,
                   submissions>>
    /\ UNCHANGED <<playRequestId, dispatch, nEvents>>

\* ------------------------------------------- the preloader's buffers
\* A detached Audio object finishes buffering, or fails to: it has no
\* listener and is in no document, so nothing of the game hears of it.
PreloadOutcomes == {"loaded", "failed"}

PreloadSettles(i, outcome) ==
    /\ Idle /\ MayAct
    /\ i \in 1..Len(preloadNet)
    /\ preloadNet[i] = "loading"
    /\ nEvents' = nEvents + 1
    /\ preloadNet' = [preloadNet EXCEPT ![i] = outcome]
    /\ lastEv' = Ev("preload", "none", TRUE)
    /\ UNCHANGED <<page, gameFetch, resultsState, loading, rounds, currentRound,
                   selected, showResult, isCorrect, roundResults, replayCount,
                   transitioning, timer, submissions, preloadRefs>>
    /\ UNCHANGED chanState

\* ------------------------------------------------- togglePlay / replay
\* if (selected) return;
IntentAccepted == selected = "none"

\* if (playRequestId.current === id) setThis(true)
TokenMatches(id) == playRequestId = id

NewPlay(s, id) == [side |-> s, id |-> id, phase |-> "pending", stale |-> FALSE]

TogglePlay(s) ==
    /\ Idle /\ Mounted /\ MayAct /\ MayUse(s)
    /\ nEvents' = nEvents + 1
    /\ IF ~IntentAccepted
       THEN /\ lastEv' = Ev("togglePlay", s, FALSE)
            /\ UNCHANGED <<lifeVars, chanState>>
       ELSE /\ IF el[s].paused
               THEN \* stop the other side, then thisRef.current.play()
                    /\ playRequestId' = playRequestId + 1
                    /\ el' = [el EXCEPT ![Other(s)] = PauseEl(@),
                                        ![s] = [@ EXCEPT !.paused = FALSE]]
                    /\ playing' = [playing EXCEPT ![Other(s)] = FALSE]
                    /\ plays' = Superseded(PlaysAfterPause(plays, {Other(s)}), s)
                                  \cup {NewPlay(s, playRequestId')}
                    /\ fbs' = FbsAfterPause(fbs, {Other(s)})
                    /\ lastEv' = Ev("play", s, TRUE)
               ELSE \* thisRef.current.pause(); setThis(false)
                    /\ el' = [el EXCEPT ![s] = PauseEl(@)]
                    /\ playing' = [playing EXCEPT ![s] = FALSE]
                    /\ plays' = Superseded(PlaysAfterPause(plays, {s}), s)
                    /\ fbs' = FbsAfterPause(fbs, {s})
                    /\ lastEv' = Ev("pause", s, TRUE)
                    /\ UNCHANGED playRequestId
            /\ UNCHANGED lifeVars
            /\ UNCHANGED <<buffering, retries, fallbackActive, dispatch,
                           issued>>

Replay(s) ==
    /\ Idle /\ Mounted /\ MayAct /\ MayUse(s)
    /\ nEvents' = nEvents + 1
    /\ IF ~IntentAccepted
       THEN /\ lastEv' = Ev("replay", s, FALSE)
            /\ UNCHANGED <<lifeVars, chanState>>
       ELSE /\ playRequestId' = playRequestId + 1
            /\ el' = [el EXCEPT ![Other(s)] = PauseEl(@),
                                ![s] = [@ EXCEPT !.paused = FALSE,
                                                 !.atStart = TRUE]]
            /\ playing' = [playing EXCEPT ![Other(s)] = FALSE]
            /\ plays' = Superseded(PlaysAfterPause(plays, {Other(s)}), s)
                          \cup {NewPlay(s, playRequestId')}
            /\ fbs' = FbsAfterPause(fbs, {Other(s)})
            /\ replayCount' = [replayCount EXCEPT ![s] = @ + 1]
            /\ lastEv' = Ev("replay", s, TRUE)
            /\ UNCHANGED <<page, gameFetch, resultsState, loading, rounds, currentRound,
                           selected, showResult, isCorrect, roundResults,
                           transitioning, timer, submissions, preloadRefs, preloadNet>>
            /\ UNCHANGED <<buffering, retries, fallbackActive, dispatch,
                           issued>>

\* ------------------------------------------------ the playback surface
\* The element starts playing: it takes its pending play() promises and
\* queues the task that resolves them; the position leaves the start.
NotifyPlaying(s) ==
    /\ Idle /\ Mounted
    /\ ~el[s].paused
    /\ \/ \E p \in plays : p.side = s /\ p.phase = "pending"
       \/ \E c \in fbs : c.side = s /\ c.pc = "play"
    /\ plays' = {IF p.side = s /\ p.phase = "pending"
                 THEN [p EXCEPT !.phase = "resolving"] ELSE p : p \in plays}
    /\ fbs' = {IF c.side = s /\ c.pc = "play"
               THEN [c EXCEPT !.pc = "playOk"] ELSE c : c \in fbs}
    /\ el' = [el EXCEPT ![s].atStart = FALSE]
    /\ lastEv' = Ev("playing", s, TRUE)
    /\ UNCHANGED lifeVars
    /\ UNCHANGED <<playing, buffering, playRequestId, retries, fallbackActive,
                   dispatch, issued, nEvents>>

\* .then(() => { if (playRequestId.current === id) setThis(true); })
PlayResolved(p) ==
    /\ Idle
    /\ p.phase = "resolving"
    /\ playing' = IF TokenMatches(p.id) THEN [playing EXCEPT ![p.side] = TRUE]
                  ELSE playing
    /\ plays' = plays \ {p}
    /\ lastEv' = Ev("played", p.side, TokenMatches(p.id))
    /\ UNCHANGED lifeVars
    /\ UNCHANGED <<buffering, el, playRequestId, retries, fallbackActive,
                   fbs, dispatch, issued, nEvents>>

\* onWaiting={() => setAudioLeftBuffering(true)}
Waiting(s) ==
    /\ Idle /\ Mounted /\ MayAct /\ MayUse(s)
    /\ nEvents' = nEvents + 1
    /\ ~el[s].paused /\ ~buffering[s]
    /\ buffering' = [buffering EXCEPT ![s] = TRUE]
    /\ lastEv' = Ev("waiting", s, TRUE)
    /\ UNCHANGED lifeVars
    /\ UNCHANGED <<playing, el, playRequestId, retries, fallbackActive,
                   plays, fbs, dispatch, issued>>

WaitingCanPlay(s) == {c \in fbs : c.side = s /\ c.pc = "canplay"}

\* onCanPlay={() => setAudioLeftBuffering(false)}; the listeners that
\* suspended fallbacks added to the element run after it
CanPlay(s) ==
    /\ Idle /\ Mounted
    /\ buffering[s] \/ WaitingCanPlay(s) # {}
    /\ buffering' = [buffering EXCEPT ![s] = FALSE]
    /\ dispatch' = IF WaitingCanPlay(s) # {} THEN [ev |-> "canplay", side |-> s]
                   ELSE NoDispatch
    /\ lastEv' = Ev("canplay", s, TRUE)
    /\ UNCHANGED lifeVars
    /\ UNCHANGED <<playing, el, playRequestId, retries, fallbackActive,
                   plays, fbs, issued, nEvents>>

\* onCanPlay of the fallback's promise: resolve(); then await el.play()
CanPlayListeners(s) ==
    /\ page = "game" /\ dispatch = [ev |-> "canplay", side |-> s]
    /\ fbs' = {IF c \in WaitingCanPlay(s) THEN [c EXCEPT !.pc = "play"] ELSE c
                 : c \in fbs}
    /\ el' = [el EXCEPT ![s].paused = FALSE]
    /\ dispatch' = NoDispatch
    /\ lastEv' = Ev("canplayListeners", s, TRUE)
    /\ UNCHANGED lifeVars
    /\ UNCHANGED <<playing, buffering, playRequestId, retries, fallbackActive,
                   plays, issued, nEvents>>

\* onEnded={() => setPlayingLeft(false)}; the element pauses at its end
Ended(s) ==
    /\ Idle /\ Mounted
    /\ ~el[s].paused /\ ~el[s].atStart
    /\ ~\E p \in plays : p.side = s /\ p.phase = "pending"
    /\ ~\E c \in fbs : c.side = s /\ c.pc = "play"
    /\ playing' = [playing EXCEPT ![s] = FALSE]
    /\ el' = [el EXCEPT ![s] = PauseEl(@)]
    /\ lastEv' = Ev("ended", s, TRUE)
    /\ UNCHANGED lifeVars
    /\ UNCHANGED <<buffering, playRequestId, retries, fallbackActive,
                   plays, fbs, dispatch, issued, nEvents>>

\* ----------------------------------------------------- handleAudioError
\* if (disabled) return; if (retries >= MAX) return; if (active) return;
FallbackAccepted(s) ==
    /\ ~Disabled
    /\ retries[s] < MAX_AUDIO_RETRIES
    /\ ~fallbackActive[s]

\* what the invocation captures before its first await
FreshFbId ==
    CHOOSE i \in 1..(Cardinality(fbs) + 1) :
        /\ \A c \in fbs : c.id # i
        /\ \A j \in 1..(i - 1) : \E c \in fbs : c.id = j

NewFallback(s) ==
    [id |-> FreshFbId,
     side |-> s,
     wasPlaying |-> playing[s],
     celebrity |-> Round.celebrity,
     category |-> CategoryOf(el[s].src),
     currentSrc |-> el[s].src,
     exclude |-> Pathname(el[s].src),
     pc |-> "fetch",
     round |-> currentRound]

\* the error event also reaches the listeners of suspended fallbacks and
\* rejects the play() promises pending on the element
ErrorHasMore(s) ==
    \/ WaitingCanPlay(s) # {}
    \/ \E p \in plays : p.side = s /\ p.phase = "pending"
    \/ \E c \in fbs : c.side = s /\ c.pc = "play"

\* onError={() => handleAudioError('left')}, up to the fetch
HandleAudioError(s) ==
    /\ Idle /\ Mounted /\ Active /\ MayUse(s)
    /\ IF retries[s] >= MAX_AUDIO_RETRIES THEN UNCHANGED nEvents
       ELSE nEvents < MaxEvents /\ nEvents' = nEvents + 1
    /\ dispatch' = IF ErrorHasMore(s) THEN [ev |-> "error", side |-> s]
                   ELSE NoDispatch
    /\ IF FallbackAccepted(s)
       THEN /\ fallbackActive' = [fallbackActive EXCEPT ![s] = TRUE]
            /\ retries' = [retries EXCEPT ![s] = @ + 1]
            /\ fbs' = fbs \cup {NewFallback(s)}
            /\ issued' = [issued EXCEPT ![s] = @ + 1]
            /\ lastEv' = Ev("error", s, TRUE)
       ELSE /\ lastEv' = Ev("error", s, FALSE)
            /\ UNCHANGED <<fallbackActive, retries, fbs, issued>>
    /\ UNCHANGED lifeVars
    /\ UNCHANGED <<playing, buffering, el, playRequestId, plays>>

\* onError of a fallback waiting for canplay: reject(); catch: setPlaying(false);
\* finally: activeRef.current = false
ErrorListeners(s) ==
    /\ page = "game" /\ dispatch = [ev |-> "error", side |-> s]
    /\ playing' = IF WaitingCanPlay(s) # {} THEN [playing EXCEPT ![s] = FALSE]
                  ELSE playing
    /\ fallbackActive' = IF WaitingCanPlay(s) # {}
                         THEN [fallbackActive EXCEPT ![s] = FALSE]
                         ELSE fallbackActive
    /\ fbs' = FbsAfterPause(fbs \ WaitingCanPlay(s), {s})
    /\ plays' = PlaysAfterPause(plays, {s})
    /\ dispatch' = NoDispatch
    /\ lastEv' = Ev("errorListeners", s, WaitingCanPlay(s) # {})
    /\ UNCHANGED lifeVars
    /\ UNCHANGED <<buffering, el, playRequestId, retries, issued, nEvents>>

\* !res.ok, a network error, or no filePath: catch: setPlaying(false);
\* finally: activeRef.current = false
ResolverFails(c, kind) ==
    /\ Idle
    /\ c.pc = "fetch"
    /\ playing' = [playing EXCEPT ![c.side] = FALSE]
    /\ fallbackActive' = [fallbackActive EXCEPT ![c.side] = FALSE]
    /\ fbs' = fbs \ {c}
    /\ lastEv' = Ev(kind, c.side, FALSE)
    /\ UNCHANGED lifeVars
    /\ UNCHANGED <<buffering, el, playRequestId, retries, plays, dispatch,
                   issued, nEvents>>

\* el.pause(); el.src = filePath; el.load()
SwapSource(e, filePath) == FreshEl(filePath)

\* { filePath } arrives: swap in place, then wait for canplay if wasPlaying
ResolverSucceeds(c, filePath) ==
    /\ Idle
    /\ c.pc = "fetch"
    /\ filePath \in AudioFiles(c.celebrity, c.category, c.exclude)
    /\ IF ~Mounted
       THEN \* const el = audioRef.current; if (!el) return;
            /\ fbs' = fbs \ {c}
            /\ fallbackActive' = [fallbackActive EXCEPT ![c.side] = FALSE]
            /\ lastEv' = Ev("swap", c.side, FALSE)
            /\ UNCHANGED <<el, plays>>
       ELSE /\ el' = [el EXCEPT ![c.side] = SwapSource(@, filePath)]
            /\ plays' = PlaysAfterPause(plays, {c.side})
            /\ fbs' = FbsAfterPause(fbs \ {c}, {c.side})
                        \cup (IF c.wasPlaying THEN {[c EXCEPT !.pc = "canplay"]}
                              ELSE {})
            /\ fallbackActive' = IF c.wasPlaying THEN fallbackActive
                                 ELSE [fallbackActive EXCEPT ![c.side] = FALSE]
            /\ lastEv' = Ev("swap", c.side, TRUE)
    /\ UNCHANGED lifeVars
    /\ UNCHANGED <<playing, buffering, playRequestId, retries, dispatch,
                   issued, nEvents>>

\* await el.play() resolved: setPlaying(true); finally
FbPlayResolved(c) ==
    /\ Idle
    /\ c.pc = "playOk"
    /\ playing' = [playing EXCEPT ![c.side] = TRUE]
    /\ fallbackActive' = [fallbackActive EXCEPT ![c.side] = FALSE]
    /\ fbs' = fbs \ {c}
    /\ lastEv' = Ev("resumed", c.side, TRUE)
    /\ UNCHANGED lifeVars
    /\ UNCHANGED <<buffering, el, playRequestId, retries, plays, dispatch,
                   issued, nEvents>>

\* await el.play() rejected: catch: setPlaying(false); finally
FbPlayRejected(c) ==
    /\ Idle
    /\ c.pc = "playRej"
    /\ playing' = [playing EXCEPT ![c.side] = FALSE]
    /\ fallbackActive' = [fallbackActive EXCEPT ![c.side] = FALSE]
    /\ fbs' = fbs \ {c}
    /\ lastEv' = Ev("resumed", c.side, FALSE)
    /\ UNCHANGED lifeVars
    /\ UNCHANGED <<buffering, el, playRequestId, retries, plays, dispatch,
                   issued, nEvents>>

\* ----------------------------------------------------------------- Next
Next ==
    \/ \E ses \in Sessions : LoadGameOk(ses[1], ses[2])
    \/ LoadGameFail
    \/ \E s \in Sides : HandleSelect(s)
    \/ TimerSubmit
    \/ TimerTransition
    \/ SubmitOk
    \/ SubmitFail
    \/ Advance
    \/ \E i \in 1..2, outcome \in PreloadOutcomes : PreloadSettles(i, outcome)
    \/ \E s \in Sides : TogglePlay(s)
    \/ \E s \in Sides : Replay(s)
    \/ \E s \in Sides : NotifyPlaying(s)
    \/ \E p \in plays : PlayResolved(p)
    \/ \E s \in Sides : Waiting(s)
    \/ \E s \in Sides : CanPlay(s)
    \/ \E s \in Sides : CanPlayListeners(s)
    \/ \E s \in Sides : Ended(s)
    \/ \E s \in Sides : HandleAudioError(s)
    \/ \E s \in Sides : ErrorListeners(s)
    \/ \E c \in fbs, kind \in {"resolverError", "resolverEmpty"} : ResolverFails(c, kind)
    \/ \E c \in fbs : \E f \in AudioFiles(c.celebrity, c.category, c.exclude) :
           ResolverSucceeds(c, f)
    \/ \E c \in fbs : FbPlayResolved(c)
    \/ \E c \in fbs : FbPlayRejected(c)

Spec == Init /\ [][Next]_vars

\* What the event loop and the collaborators guarantee: a timer that is due
\* fires, a settled promise runs its callback, a dispatched event reaches
\* its remaining listeners, a request is answered one way or the other, an
\* element told to play starts, and an element that was reloaded for a
\* waiting fallback reports that it can play.
ResolverAnswers ==
    \E c \in fbs :
        \/ \E kind \in {"resolverError", "resolverEmpty"} : ResolverFails(c, kind)
        \/ \E f \in AudioFiles(c.celebrity, c.category, c.exclude) :
               ResolverSucceeds(c, f)

ReloadedCanPlay == \E s \in Sides : WaitingCanPlay(s) # {} /\ CanPlay(s)

Fairness ==
    /\ WF_vars(TimerSubmit)
    /\ WF_vars(TimerTransition)
    /\ WF_vars(Advance)
    /\ WF_vars(SubmitOk \/ SubmitFail)
    /\ WF_vars(\E p \in plays : PlayResolved(p))
    /\ WF_vars(\E c \in fbs : FbPlayResolved(c))
    /\ WF_vars(\E c \in fbs : FbPlayRejected(c))
    /\ WF_vars(\E s \in Sides : CanPlayListeners(s))
    /\ WF_vars(\E s \in Sides : ErrorListeners(s))
    /\ WF_vars(\E s \in Sides : NotifyPlaying(s))
    /\ WF_vars(ResolverAnswers)
    /\ WF_vars(ReloadedCanPlay)

\* The steps the timers and the fallback react to: the session's lifecycle,
\* play intents, the element's reports and failures, and the resolver.
\* Replays, buffering-started reports and the preloader's network are left
\* to Spec: they touch neither the timers nor a single-flight flag.
FairNext ==
    \/ \E ses \in Sessions : LoadGameOk(ses[1], ses[2])
    \/ LoadGameFail
    \/ \E s \in Sides : HandleSelect(s)
    \/ TimerSubmit
    \/ TimerTransition
    \/ SubmitOk
    \/ SubmitFail
    \/ Advance
    \/ \E s \in Sides : TogglePlay(s)
    \/ \E s \in Sides : NotifyPlaying(s)
    \/ \E p \in plays : PlayResolved(p)
    \/ \E s \in Sides : CanPlay(s)
    \/ \E s \in Sides : CanPlayListeners(s)
    \/ \E s \in Sides : Ended(s)
    \/ \E s \in Sides : HandleAudioError(s)
    \/ \E s \in Sides : ErrorListeners(s)
    \/ \E c \in fbs, kind \in {"resolverError", "resolverEmpty"} : ResolverFails(c, kind)
    \/ \E c \in fbs : \E f \in AudioFiles(c.celebrity, c.category, c.exclude) :
           ResolverSucceeds(c, f)
    \/ \E c \in fbs : FbPlayResolved(c)
    \/ \E c \in fbs : FbPlayRejected(c)

FairSpec == Init /\ [][FairNext]_vars /\ Fairness

\* ================================================================ claims
\* C1: on one channel, the resolution of a play request that a later play,
\* pause or replay call on that channel has superseded never changes the
\* channel's playing flag.
C1_StaleResolutionIgnored ==
    [][\A p \in plays :
          (PlayResolved(p) /\ p.stale) => playing'[p.side] = playing[p.side]]_vars

C3_SingleFlight ==
    \A s \in Sides : Cardinality({c \in fbs : c.side = s}) <= 1

\* a fallback started in an earlier round resumes
StaleResumes(c) ==
    /\ c.round # currentRound
    /\ \/ \E f \in AudioFiles(c.celebrity, c.category, c.exclude) :
              ResolverSucceeds(c, f)
       \/ \E kind \in {"resolverError", "resolverEmpty"} : ResolverFails(c, kind)
       \/ FbPlayResolved(c)
       \/ FbPlayRejected(c)

\* C4: a fallback continuation started before a round transition, resuming
\* in a later round, does not replace the channel's asset, does not set its
\* playing flag and does not clear the single-flight flag of a fallback of
\* the later round.
C4_SupersededContinuationInert ==
    [][\A c \in fbs :
          StaleResumes(c) =>
              /\ el'[c.side].src = el[c.side].src
              /\ playing'[c.side] => playing[c.side]
              /\ (\E d \in fbs : d.side = c.side /\ d.round = currentRound)
                     => fallbackActive'[c.side] = fallbackActive[c.side]]_vars

\* the round's pair of asset references
AssetPair(rs, cr) == <<LeftAudioOf(RoundAt(rs, cr)), RightAudioOf(RoundAt(rs, cr))>>

OneOutcomePerRound ==
    /\ Len(roundResults) = currentRound + (IF selected # "none" THEN 1 ELSE 0)
    /\ \A i \in 1..Len(roundResults) : roundResults[i].roundNum = i

\* C6: a select call made while the round is decided or the transition is in
\* flight leaves the selection, the correctness flag and the outcome log
\* unchanged, and the log holds exactly one outcome per round.
C6_OneSelectionPerRound ==
    [][/\ \A side \in Sides :
             (HandleSelect(side) /\ (selected # "none" \/ transitioning))
                 => UNCHANGED <<selected, isCorrect, roundResults>>
       /\ OneOutcomePerRound']_vars

\* a select call has just been refused while the transition was in flight
C6_Witness ==
    /\ lastEv.op = "select"
    /\ transitioning
    /\ Len(roundResults) = currentRound + 1
    /\ currentRound >= 1

\* C7: from the accepted selection until the reset has completed no play or
\* replay intent is accepted, and the advance leaves both channels not
\* playing, not buffering, paused at the start with the new round's asset
\* references, and both replay counters at zero.
C7_ResetBeforeInteractable ==
    [][/\ timer'.pc # "none" => selected' # "none"
       /\ \A s \in Sides :
             ((TogglePlay(s) \/ Replay(s)) /\ selected # "none")
                 => UNCHANGED <<lifeVars, chanState>>
       /\ (Advance /\ Mounted')
             => \A s \in Sides :
                   /\ ~playing'[s]
                   /\ ~buffering'[s]
                   /\ el'[s] = FreshEl(AudioOf(RoundAt(rounds', currentRound'), s))
                   /\ replayCount'[s] = 0]_vars

\* the round has just advanced after a round in which a replay was made and
\* a fallback had replaced an asset
C7_Witness ==
    /\ lastEv.op = "advance"
    /\ Mounted
    /\ playRequestId >= 1
    /\ \E c \in fbs : c.round < currentRound

\* C8: while a round is decided, neither channel's playing flag is true.
C8_NoBleedOver ==
    (page = "game" /\ selected # "none") => \A s \in Sides : ~playing[s]

\* C9: an accepted select leaves both elements paused and both playing flags
\* false.
C9_SelectStopsBoth ==
    [][\A side \in Sides :
          (HandleSelect(side) /\ SelectAccepted)
              => \A s \in Sides : el'[s].paused /\ ~playing'[s]]_vars

\* a round has just been decided while a request to play was being resolved
C9_Witness ==
    /\ timer.pc = "t1"
    /\ selected # "none"
    /\ \E p \in plays : p.phase = "resolving" /\ el[p.side].paused

\* C10: at most one submission is made, and what is submitted is the log of
\* TOTAL_ROUNDS outcomes, one per round in round order.
C10_SubmitOnceComplete ==
    /\ Len(submissions) <= 1
    /\ \A k \in 1..Len(submissions) :
          /\ Len(submissions[k]) = TOTAL_ROUNDS
          /\ \A i \in 1..TOTAL_ROUNDS : submissions[k][i].roundNum = i
    /\ timer.pc = "submit" => Len(submissions) = 1

\* the log has been submitted and the results page is shown
C10_Witness ==
    /\ Len(submissions) = 1
    /\ page = "results"
    /\ Len(resultsState.rounds) = TOTAL_ROUNDS

\* C11: once the submission collaborator has answered, with a result or
\* with a failure, the session is in its finished state: the results page,
\* holding the outcome log.
C11_SubmitFailureNonFatal ==
    (Len(submissions) >= 1 /\ timer.pc # "submit")
        => /\ page = "results"
           /\ resultsState.rounds = submissions[1]

\* the session as it is while the Round Source has supplied nothing
NeverStarted ==
    /\ loading
    /\ rounds = <<>>
    /\ ~Mounted
    /\ selected = "none"
    /\ roundResults = <<>>
    /\ timer = NoTimer
    /\ playRequestId = 0
    /\ plays = {}
    /\ fbs = {}
    /\ submissions = <<>>

\* C12: the request to the Round Source is answered once and never made
\* again, and after its failure no round is on screen and no selection or
\* play intent has been accepted.
C12_NoStartWithoutRounds ==
    [][/\ gameFetch # "pending" => gameFetch' = gameFetch
       /\ gameFetch' = "failed" => NeverStarted']_vars

\* the Round Source has failed and a select call has been refused
C12_Witness ==
    /\ gameFetch = "failed"
    /\ lastEv.op = "select"

\* C13: while the game is on screen the outcome log only grows, by one entry
\* at its end per accepted selection, the entry carrying the next round
\* number; the log handed to the results page is the log as it was.
C13_LogAppendOnly ==
    [][/\ page' = "game" =>
             \/ roundResults' = roundResults
             \/ /\ \E side \in Sides : HandleSelect(side) /\ SelectAccepted
                /\ Len(roundResults') = Len(roundResults) + 1
                /\ SubSeq(roundResults', 1, Len(roundResults)) = roundResults
                /\ roundResults'[Len(roundResults')].roundNum = Len(roundResults')
       /\ (\E side \in Sides : HandleSelect(side) /\ SelectAccepted)
             => Len(roundResults') = Len(roundResults) + 1
       /\ (page = "game" /\ page' = "results")
             => resultsState'.rounds = roundResults]_vars

\* two rounds have been decided and the second timer of the second is pending
C13_Witness ==
    /\ Len(roundResults) >= 2
    /\ timer.pc = "t2"
    /\ roundResults[Len(roundResults)].roundNum = currentRound + 1

\* C14: every outcome in the log records the selected side, and is correct
\* exactly when the asset on the selected side is the round's authentic one.
C14_OutcomeCorrectness ==
    /\ \A i \in 1..Len(roundResults) :
          LET r == roundResults[i]
          IN  /\ r.userChoice \in Sides
              /\ r.correct = (r.userChoice = rounds[i].realPosition)
              /\ r.correct = (AudioOf(rounds[i], r.userChoice).cat = "Real")
    /\ selected # "none" =>
          /\ roundResults[Len(roundResults)].userChoice = selected
          /\ roundResults[Len(roundResults)].correct = isCorrect

\* the log holds a correct and an incorrect outcome, one of them for the
\* right card
C14_Witness ==
    /\ \E i \in 1..Len(roundResults) : roundResults[i].correct
    /\ \E i \in 1..Len(roundResults) : ~roundResults[i].correct
    /\ \E i \in 1..Len(roundResults) : roundResults[i].userChoice = "right"

\* C15: an accepted replay adds one to its side's counter and leaves the
\* other side's; a replay call in a decided round changes neither; the
\* advance sets both to zero; no other step changes them; and the outcome of
\* an accepted selection carries the two counters as they are.
C15_ReplayCounts ==
    [][/\ \A s \in Sides :
             Replay(s) =>
                 IF selected = "none"
                 THEN /\ replayCount'[s] = replayCount[s] + 1
                      /\ replayCount'[Other(s)] = replayCount[Other(s)]
                 ELSE replayCount' = replayCount
       /\ Advance => replayCount' = [s \in Sides |-> 0]
       /\ (page' = "game" /\ ~Advance /\ ~\E s \in Sides : Replay(s))
             => replayCount' = replayCount
       /\ (\E side \in Sides : HandleSelect(side) /\ SelectAccepted)
             => LET r == roundResults'[Len(roundResults')]
                IN  /\ r.replayCountLeft = replayCount["left"]
                    /\ r.replayCountRight = replayCount["right"]]_vars

\* a round after the first has been decided after two replays of one side
\* and none of the other
C15_Witness ==
    /\ currentRound >= 1
    /\ selected # "none"
    /\ \E s \in Sides : replayCount[s] = 2 /\ replayCount[Other(s)] = 0
    /\ roundResults[Len(roundResults)].replayCountLeft = replayCount["left"]
    /\ roundResults[Len(roundResults)].replayCountRight = replayCount["right"]

\* C16: an accepted failure captures whether its channel's flag is playing;
\* the resolver's answer replaces the asset of that channel's element, and of
\* no other, and changes no playing flag; only a fallback that captured
\* "playing" goes on to wait for the replacement and sets the flag when it
\* plays; one that captured "not playing" ends with the swap.
C16_ResumeOnlyIfWasPlaying ==
    [][/\ \A s \in Sides :
             (HandleAudioError(s) /\ FallbackAccepted(s))
                 => \E c \in fbs' \ fbs :
                        /\ c.side = s
                        /\ c.wasPlaying = playing[s]
                        /\ fbs' = fbs \cup {c}
       /\ \A c \in fbs :
             \A f \in AudioFiles(c.celebrity, c.category, c.exclude) :
                 (ResolverSucceeds(c, f) /\ Mounted)
                     => /\ el'[c.side].src = f
                        /\ el'[Other(c.side)] = el[Other(c.side)]
                        /\ playing' = playing
                        /\ ~c.wasPlaying => \A d \in fbs' : d.id # c.id
       /\ \A c \in fbs' : c.pc # "fetch" => c.wasPlaying
       /\ \A c \in fbs :
             FbPlayResolved(c) => c.wasPlaying /\ playing'[c.side]]_vars

\* the replacement of a channel that was playing when it failed has started
\* to play in the round of the failure
C16_Witness ==
    \E c \in fbs :
        /\ c.pc = "playOk"
        /\ c.wasPlaying
        /\ c.round = currentRound
        /\ el[c.side].src # c.currentSrc
        /\ ~el[c.side].paused

\* C17: a failure event on an element whose replacement a fallback is
\* waiting for issues no resolver request and consumes no retry unit, and
\* the listeners' step abandons the attempt: the flag is not playing, the
\* single-flight flag is clear, the waiting fallback is gone.
C17_ReplacementFailureAbandons ==
    [][\A s \in Sides :
          /\ (HandleAudioError(s) /\ WaitingCanPlay(s) # {})
                => /\ retries' = retries
                   /\ issued' = issued
                   /\ fbs' = fbs
          /\ (ErrorListeners(s) /\ WaitingCanPlay(s) # {})
                => /\ ~playing'[s]
                   /\ ~fallbackActive'[s]
                   /\ \A c \in WaitingCanPlay(s) : c \notin fbs'
                   /\ retries' = retries
                   /\ issued' = issued]_vars

\* C18: a resolver error and an empty answer have the same outcome: the
\* channel's flag is not playing, its single-flight flag is clear, the
\* invocation is over, and nothing else has changed: not the elements, the
\* sibling's flags, the retry counters or the round lifecycle.  The one
\* retry unit of the request was taken when the failure was accepted.
C18_ResolverFailureUniform ==
    [][/\ \A c \in fbs :
             \A kind \in {"resolverError", "resolverEmpty"} :
                 ResolverFails(c, kind)
                     => /\ ~playing'[c.side]
                        /\ ~fallbackActive'[c.side]
                        /\ fbs' = fbs \ {c}
                        /\ playing'[Other(c.side)] = playing[Other(c.side)]
                        /\ fallbackActive'[Other(c.side)] = fallbackActive[Other(c.side)]
                        /\ UNCHANGED <<el, retries, issued, buffering, plays,
                                       playRequestId, lifeVars>>
       /\ \A s \in Sides :
             (HandleAudioError(s) /\ FallbackAccepted(s))
                 => /\ retries'[s] = retries[s] + 1
                    /\ retries'[Other(s)] = retries[Other(s)]]_vars

\* a channel asked to play has failed, its one resolver request has
\* failed, and it is left not playing with its asset and one unit used
C18_Witness ==
    /\ Mounted
    /\ fbs = {}
    /\ \E s \in Sides :
          /\ retries[s] = 1
          /\ issued[s] = 1
          /\ ~fallbackActive[s]
          /\ ~playing[s]
          /\ ~el[s].paused
          /\ el[s].src = AudioOf(Round, s)

PreloadRerun == TearDown(preloadRefs) \o PreloadFor(rounds, currentRound)

\* C20: the preloader holds at most two buffers, exactly those of the round
\* after the current one and none when there is no such round, and running
\* its effect again leaves the same buffers.
C20_PreloaderHoldsNextRound ==
    /\ Len(preloadRefs) <= 2
    /\ page = "game" =>
          preloadRefs = IF currentRound + 2 <= Len(rounds)
                        THEN <<LeftAudioOf(rounds[currentRound + 2]),
                               RightAudioOf(rounds[currentRound + 2])>>
                        ELSE <<>>
    /\ page # "game" => preloadRefs = <<>>
    /\ PreloadRerun = preloadRefs

\* after two advances the buffers are those of the fourth round
C20_Witness ==
    /\ currentRound = 2
    /\ Len(preloadRefs) = 2
    /\ preloadRefs[1] = LeftAudioOf(rounds[4])
    /\ preloadRefs[1] # LeftAudioOf(rounds[3])

\* C21: the preload's outcome is heard by nothing: a buffer that loads or
\* fails changes only the preloader's own record; the buffers change only in
\* a step that changes the round sequence, the round index or the page; and
\* an advance gives the two channels the asset references of the new round
\* from the round sequence, which are the two references the preloader held
\* for it, loaded, failed or still loading.
C21_PreloadAdvisory ==
    [][/\ \A i \in 1..2, outcome \in PreloadOutcomes :
             PreloadSettles(i, outcome)
                 => UNCHANGED <<chanState, page, gameFetch, resultsState, loading,
                                rounds, currentRound, selected, showResult,
                                isCorrect, roundResults, replayCount,
                                transitioning, timer, submissions, preloadRefs>>
       /\ preloadRefs' # preloadRefs
             => \/ rounds' # rounds
                \/ currentRound' # currentRound
                \/ page' # page
       /\ (Advance /\ Mounted')
             => /\ \A s \in Sides :
                      el'[s] = FreshEl(AudioOf(RoundAt(rounds, currentRound + 1), s))
                /\ preloadRefs = <<el'["left"].src, el'["right"].src>>]_vars

\* a round has just been entered whose preload had failed
C21_Witness ==
    /\ lastEv = [op |-> "advance", side |-> "failed"]
    /\ Mounted
    /\ \A s \in Sides : el[s].src = AudioOf(Round, s)

\* a play request has just been issued on side s
PlayIssued(s) ==
    \/ TogglePlay(s) /\ IntentAccepted /\ el[s].paused
    \/ Replay(s) /\ IntentAccepted

\* C22: the step of an accepted play or replay intent on one side leaves the
\* opposite element paused, the opposite playing flag false and no play
\* request pending on the opposite element, and issues the one new play
\* request on the starting side under a new token.
C22_StartStopsOther ==
    [][\A s \in Sides :
          PlayIssued(s)
              => /\ el'[Other(s)].paused
                 /\ ~playing'[Other(s)]
                 /\ \A p \in plays' : p.side = Other(s) => p.phase # "pending"
                 /\ ~el'[s].paused
                 /\ playRequestId' = playRequestId + 1
                 /\ \E p \in plays' \ plays :
                        /\ p = NewPlay(s, playRequestId')
                        /\ \A q \in plays' \ plays : q = p \/ q.stale]_vars

\* one side has just been asked to play while the other, whose own play
\* request was being resolved, had started: the other is paused off its start
C22_Witness ==
    \E p \in plays :
        /\ p.phase = "pending"
        /\ p.id = playRequestId
        /\ ~el[p.side].paused
        /\ el[Other(p.side)].paused
        /\ ~el[Other(p.side)].atStart
        /\ ~playing[Other(p.side)]
        /\ \E q \in plays : q.side = Other(p.side) /\ q.phase = "resolving" /\ ~q.stale

\* the step leaves the sibling of channel s and the round lifecycle alone
SiblingFrame(s) ==
    /\ playing'[Other(s)] = playing[Other(s)]
    /\ buffering'[Other(s)] = buffering[Other(s)]
    /\ el'[Other(s)] = el[Other(s)]
    /\ retries'[Other(s)] = retries[Other(s)]
    /\ fallbackActive'[Other(s)] = fallbackActive[Other(s)]
    /\ UNCHANGED <<currentRound, selected, timer, roundResults, rounds,
                   showResult, isCorrect, transitioning, replayCount, page>>

\* C23: every step of a failure on one channel (the failure handler, the
\* listeners of the failure and became-playable events, the resolver's
\* answer or failure, the resumed or rejected play) leaves the sibling's
\* playing flag, buffering flag, element, retry counter and single-flight
\* flag unchanged, and the round index, selection, timer and outcome log
\* unchanged.
C23_FallbackFrame ==
    [][/\ \A s \in Sides :
             (HandleAudioError(s) \/ ErrorListeners(s) \/ CanPlayListeners(s))
                 => SiblingFrame(s)
       /\ \A c \in fbs :
             (\/ \E kind \in {"resolverError", "resolverEmpty"} : ResolverFails(c, kind)
              \/ \E f \in AudioFiles(c.celebrity, c.category, c.exclude) :
                     ResolverSucceeds(c, f)
              \/ FbPlayResolved(c)
              \/ FbPlayRejected(c))
                 => SiblingFrame(c.side)]_vars

\* one channel's asset has been replaced, at the cost of one retry unit,
\* while its sibling plays on untouched
C23_Witness ==
    \E s \in Sides :
        /\ Mounted
        /\ retries[s] = 1
        /\ ~fallbackActive[s]
        /\ el[s].src # AudioOf(Round, s)
        /\ playing[Other(s)]
        /\ ~el[Other(s)].paused
        /\ el[Other(s)].src = AudioOf(Round, Other(s))
        /\ retries[Other(s)] = 0
        /\ selected = "none"

\* C24: an accepted failure issues its request with the channel's failing
\* asset as the excluded one, that asset's category and the round's subject,
\* and the replacement swapped into the channel is of that category and
\* subject and is not the failing asset.
C24_ReplacementExcludesFailing ==
    [][/\ \A s \in Sides :
             (HandleAudioError(s) /\ FallbackAccepted(s))
                 => \E c \in fbs' \ fbs :
                        /\ c.side = s
                        /\ c.currentSrc = el[s].src
                        /\ c.exclude = Pathname(el[s].src)
                        /\ c.category = el[s].src.cat
                        /\ c.celebrity = Round.celebrity
       /\ \A c \in fbs :
             \A f \in AudioFiles(c.celebrity, c.category, c.exclude) :
                 (ResolverSucceeds(c, f) /\ Mounted)
                     => /\ el'[c.side].src = f
                        /\ f.cat = c.category
                        /\ f.celeb = c.celebrity
                        /\ f # c.currentSrc]_vars

C26_IndexWithinSuppliedRounds ==
    /\ (page = "game" /\ ~loading) => currentRound + 1 <= Len(rounds)
    /\ timer.pc = "t2" => timer.cr + 2 <= Len(rounds)
    /\ (timer.pc = "submit" /\ page = "game") => timer.cr + 1 = Len(rounds)

\* C27: at most one of the two channels is marked playing.
C27_AtMostOnePlaying ==
    ~(playing["left"] /\ playing["right"])

\* the round after round n is on screen and can be played and decided
Interactable(n) ==
    /\ currentRound = n
    /\ Mounted
    /\ selected = "none"
    /\ ~showResult
    /\ ~transitioning

\* C28: with the timers firing, a round decided before the last of the
\* TOTAL_ROUNDS leads to the next round on screen: the index one higher, the
\* selection cleared, the banner hidden, the transition over.
C28_SelectionLeadsToNextRound ==
    \A n \in 0..(TOTAL_ROUNDS - 2) :
        (page = "game" /\ currentRound = n /\ selected # "none" /\ timer.pc = "t1")
            ~> Interactable(n + 1)

\* the continuation c has just run to its end
FallbackEnds(c) ==
    \/ \E kind \in {"resolverError", "resolverEmpty"} : ResolverFails(c, kind)
    \/ \E f \in AudioFiles(c.celebrity, c.category, c.exclude) :
           ResolverSucceeds(c, f) /\ (~c.wasPlaying \/ ~Mounted)
    \/ c.pc = "canplay" /\ ErrorListeners(c.side)
    \/ FbPlayResolved(c)
    \/ FbPlayRejected(c)

\* C29: with the resolver answering and a reloaded element reporting, a
\* single-flight flag that is set is cleared again; and every way a fallback
\* can end (resolver error, empty answer, element missing, replacement
\* installed without resume, replacement failed to load, resumed play
\* resolved or rejected) removes exactly that attempt and leaves its
\* channel's flag clear.
C29_SingleFlightCleared ==
    /\ \A s \in Sides : fallbackActive[s] ~> ~fallbackActive[s]
    /\ [][\A c \in fbs :
             FallbackEnds(c) => (~fallbackActive'[c.side] /\ c \notin fbs')]_vars

\* a fallback that was to resume has installed its replacement and waits
\* for the element, its channel's flag still set
C29_Witness ==
    \E c \in fbs :
        /\ c.pc = "canplay"
        /\ c.round = currentRound
        /\ fallbackActive[c.side]
        /\ el[c.side].src # AudioOf(Round, c.side)

\* C30: while the game is shown, the rounds in use come from a descriptor
\* list of the Round Source such that, round by round, the left channel's
\* asset is the descriptor's
\* audioA and the right channel's its audioB, the authentic position is left
\* exactly when realPosition is A, and the channel at the authentic position
\* is given the authentic asset and the other channel the synthetic one.
C30_PositionsAgree ==
    (page = "game" /\ gameFetch = "ok") =>
        \E ses \in Sessions :
            LET data == StartGame(ses[1], ses[2])
            IN  /\ Len(rounds) = Len(data)
                /\ \A i \in 1..Len(data) :
                      LET d == data[i]
                          r == rounds[i]
                      IN  /\ d.realPosition \in {"A", "B"}
                          /\ LeftAudioOf(r) = d.audioA
                          /\ RightAudioOf(r) = d.audioB
                          /\ (r.realPosition = "left") = (d.realPosition = "A")
                          /\ r.realPosition \in Sides
                          /\ AudioOf(r, r.realPosition) = r.realAudio
                          /\ AudioOf(r, r.realPosition).cat = "Real"
                          /\ AudioOf(r, Other(r.realPosition)) = r.fakeAudio
                          /\ AudioOf(r, Other(r.realPosition)).cat = "Cloned"

\* the game is on screen with a round whose authentic clip is on the left
\* and another whose authentic clip is on the right
C30_Witness ==
    /\ Mounted
    /\ \E i, j \in 1..Len(rounds) :
          /\ rounds[i].realPosition = "left"
          /\ rounds[j].realPosition = "right"
    /\ el[Round.realPosition].src = Round.realAudio

====
